---------------------------- MODULE Spec2Model ----------------------------
(***************************************************************************)
(* gossh: run one command on a list of hosts over ssh with bounded         *)
(* parallelism (gossh.go), as driven by cmd/gossh/main.go.                 *)
(*                                                                         *)
(* The model follows RunOn and the goroutines it starts: one worker per    *)
(* host (Run = Dial + Client.Run), and for every session the exit-wait     *)
(* goroutine, the session timer and the stdout/stderr handler goroutines.  *)
(***************************************************************************)
EXTENDS Integers, Sequences, FiniteSets, TLC

(***************************************************************************)
(* Bounds of the model.                                                    *)
(***************************************************************************)
MaxHosts == 2
MaxExit == 1
MaxDelay == 2
MaxHostLen == 3
MaxDigits == 2

\* math.MaxInt64 of gossh.go:277, cut to what TLC's integers hold.
MaxDuration == 2147483647

\* The capacity of the channel status, gossh.go:280.
StatusCap_unbuffered == 0

StatusCap == 1

HostNames == {"h1", "h2"}
\* The host lists of RunOn, up to a renaming of the hosts.
HostLists ==
    {l \in UNION {[1..n -> HostNames] : n \in 0..MaxHosts} : l = <<>> \/ l[1] = "h1"}
MaxFlights == {-1, 0, 1, 2}
Timeouts == {0, 1}
StatusHandlers == {"nil", "printAndCollateStatus"}
OutputHandlers == {"nil", "printLines"}
Streams == {"stdout", "stderr"}

\* What the network and the remote hosts may do wrong: refuse the connection,
\* answer late, reject the authentication, reject the session channel, fail
\* to start the command, or stay connected and never answer a request of the
\* authenticated connection; and a pipe of the session may not be had.
Faults == {"refused", "slow", "auth", "rejected", "pipe", "start", "stall"}

(***************************************************************************)
(* error values.  An error is a record; kind "nil" is the nil error and    *)
(* kind "unset" marks a variable that has not been assigned yet.           *)
(***************************************************************************)
Err(k, c, m) == [kind |-> k, code |-> c, msg |-> m]
Unset == Err("unset", 0, "")
Nil == Err("nil", 0, "")
ExitError(n) == Err("ExitError", n, "Process exited with status")
SessionTimeoutError == Err("SessionTimeoutError", 0, "session timeout")
OtherError(m) == Err("error", 0, m)

NoLine == <<>>

\* The unlocked stdoutMutex: it has no holder.
Free == <<>>

\* PrintStatus: the line written for a terminal status.
PrintStatus_sameForm(endpoint, status) ==
    IF status.kind # "nil"
    THEN <<endpoint, "status", "failure, exit status: ", ToString(status.code)>>
    ELSE <<endpoint, "status", "success, exit status: ", "0">>

PrintStatus(endpoint, status) ==
    IF status.kind # "nil"
    THEN IF status.kind = "ExitError"
         THEN <<endpoint, "status", "failure, exit status: ", ToString(status.code)>>
         ELSE <<endpoint, "status", "failure, error: ", status.msg>>
    ELSE <<endpoint, "status", "success, exit status: ", "0">>

\* printAndCollateStatus, the part under mu: the new <<succeeded, failed>>.
Collate_noReturn(s, f, host, status) ==
    IF status.kind # "nil"
    THEN <<Append(s, host), Append(f, host)>>
    ELSE <<Append(s, host), f>>

Collate(s, f, host, status) ==
    IF status.kind # "nil"
    THEN <<s, Append(f, host)>>
    ELSE <<Append(s, host), f>>

\* RunOn, lines 103-105: the capacity of sem.
Coerce_offByOne(maxFlight) == IF maxFlight < 0 THEN 1 ELSE maxFlight

Coerce(maxFlight) == IF maxFlight < 1 THEN 1 ELSE maxFlight

\* A send on the buffered channel sem proceeds when the buffer has room.
CanSend_unbounded(n, cap) == TRUE

CanSend(n, cap) == n < cap

\* net.DialTimeout: the connect completes after delay d; a timeout of 0 is none.
NetDial(timeout, ok, d) ==
    IF timeout > 0 /\ d >= timeout THEN OtherError("i/o timeout")
    ELSE IF ok THEN Nil ELSE OtherError("connection refused")

\* conn.SetReadDeadline(now + timeout) and ssh.NewClientConn: the server's
\* answer arrives d after the deadline was set, and a read fails once the
\* deadline (set at elapsed time 0, due at elapsed time timeout) is reached.
Handshake(timeout, authOK, d) ==
    IF d >= timeout THEN OtherError("i/o timeout")
    ELSE IF authOK THEN Nil ELSE OtherError("unable to authenticate")

\* dial, lines 170-208: the error of the low-level dial.
dial(timeout, netOK, cd, authOK, hd) ==
    IF NetDial(timeout, netOK, cd).kind # "nil"
    THEN NetDial(timeout, netOK, cd)
    ELSE Handshake(timeout, authOK, hd)

\* Client.run, lines 275-278: the duration the timer is armed with.
TimerDuration(sessionTimeout) ==
    IF sessionTimeout = 0 THEN MaxDuration ELSE sessionTimeout

\* Session.Wait: nil on exit status 0, an ExitError otherwise.
WaitResult(code) == IF code = 0 THEN Nil ELSE ExitError(code)


(***************************************************************************)
(* State.                                                                  *)
(***************************************************************************)
VARIABLES
    faults,       \* the faults the network and the remote hosts may show
    hosts,        \* RunOn's argument hosts
    cfg,          \* *Config, the fields RunOn, Dial and dial read
    cfgLogger,    \* cfg.Logger: "nil", or the subject of the Logger it points to
    rpc,          \* where RunOn is
    next,         \* index of the next host of RunOn's loop
    semCap,       \* cap(sem)
    sem,          \* len(sem)
    semClosed,    \* close(sem) has run
    workers,      \* the counter of the WaitGroup workers
    pc,           \* where each worker goroutine is
    lgr,          \* dial's local lgr: the subject of the Logger it read
    dialErr,      \* the error of the low-level dial
    dialRet,      \* what Dial returned: [client, err]
    conn,         \* the ssh connection: "none", "open", "closed"
    closes,       \* how often Close was called on the connection
    sess,         \* the ssh session: "none", "open", "closed"
    cmd,          \* the remote command: "notStarted", "running", "exited"
    timer,        \* the session timer: "none", "armed", "fired"
    waiter,       \* the exit-wait goroutine: "none", "Wait", "send", "returned"
    waitErr,      \* the result of sess.Wait() that the goroutine is to send
    statusCh,     \* the buffer of the channel status of Client.run
    status,       \* the error of the pipeline: dial's error or run's result
    expired,      \* the timer fired while the command had not exited
    calls,        \* how often the status handler was invoked for the worker
    statusLine,   \* the status line written for the worker
    stdoutMutex,  \* the holder of stdoutMutex, or Free
    succeeded,    \* main.go's succeeded
    failed,       \* main.go's failed
    task,         \* where each output handler goroutine is
    crashed,      \* the process died of an unrecovered panic
    host,         \* toAddr's argument host, a string
    addr,         \* dial's addr, the string handed to net.DialTimeout
    rangeStr,     \* expand's argument rangeStr, a string
    nodes,        \* expand's result, which is compress's argument nodes
    compressed    \* compress's result, a string

runOnVars == <<rpc, next, semCap, sem, semClosed, workers>>
dialVars == <<lgr, dialErr, dialRet, conn, closes>>
sessVars == <<sess, cmd, timer, waiter, waitErr, statusCh, expired>>
outVars == <<calls, statusLine, stdoutMutex, succeeded, failed>>
taskVars == <<task>>
callVars == <<host, addr, rangeStr, nodes, compressed>>
runVars == <<faults, hosts, cfg, cfgLogger, runOnVars, pc, dialVars, sessVars, status,
             outVars, taskVars, crashed>>
vars == <<runVars, callVars>>

N == Len(hosts)
Workers == 1..N

Configs ==
    [maxFlight : MaxFlights, ConnectTimeout : Timeouts, SessionTimeout : Timeouts,
     StdoutHandler : OutputHandlers, StderrHandler : OutputHandlers,
     StatusHandler : StatusHandlers]

Handler(s) == IF s = "stdout" THEN cfg.StdoutHandler ELSE cfg.StderrHandler

\* The calls of RunOn that are explored, each with the faults it may meet.
\*  - one host: every Config and every fault;
\*  - any host list: no output handlers, the session timeout of main.go's
\*    default (-t 0), and hosts that answer at once or refuse the connection;
\*  - two hosts with output handlers and a status handler, every host
\*    reachable and both pipelines in flight together.
OneHost ==
    [faults : {Faults}, hosts : {l \in HostLists : Len(l) <= 1}, cfg : Configs]

ManyHosts ==
    [faults : {{"refused"}}, hosts : HostLists,
     cfg : {c \in Configs : /\ c.SessionTimeout = 0
                            /\ c.StdoutHandler = "nil" /\ c.StderrHandler = "nil"}]

TwoHosts ==
    [faults : {{}}, hosts : {l \in HostLists : Len(l) = 2},
     cfg : {c \in Configs : /\ c.SessionTimeout = 0 /\ c.ConnectTimeout > 0
                            /\ c.maxFlight > 1
                            /\ c.StdoutHandler # "nil" /\ c.StatusHandler # "nil"}]

Scenarios == OneHost \cup ManyHosts \cup TwoHosts

\* The state in which RunOn is entered, for the calls and the Loggers given.
RunOnInit(scenarios, loggers) ==
    /\ \E sc \in scenarios :
         /\ faults = sc.faults
         /\ hosts = sc.hosts
         /\ cfg = sc.cfg
    /\ cfgLogger \in loggers
    /\ rpc = "RunOn"
    /\ next = 1
    /\ semCap = 0
    /\ sem = 0
    /\ semClosed = FALSE
    /\ workers = 0
    /\ pc = [i \in Workers |-> "idle"]
    /\ lgr = [i \in Workers |-> "nil"]
    /\ dialErr = [i \in Workers |-> Unset]
    /\ dialRet = [i \in Workers |-> [client |-> FALSE, err |-> Unset]]
    /\ conn = [i \in Workers |-> "none"]
    /\ closes = [i \in Workers |-> 0]
    /\ sess = [i \in Workers |-> "none"]
    /\ cmd = [i \in Workers |-> "notStarted"]
    /\ timer = [i \in Workers |-> "none"]
    /\ waiter = [i \in Workers |-> "none"]
    /\ waitErr = [i \in Workers |-> Unset]
    /\ statusCh = [i \in Workers |-> <<>>]
    /\ status = [i \in Workers |-> Unset]
    /\ expired = [i \in Workers |-> FALSE]
    /\ calls = [i \in Workers |-> 0]
    /\ statusLine = [i \in Workers |-> NoLine]
    /\ stdoutMutex = Free
    /\ succeeded = <<>>
    /\ failed = <<>>
    /\ task = [i \in Workers |-> [s \in Streams |-> "none"]]
    /\ crashed = FALSE

InitWith(scenarios) ==
    /\ RunOnInit(scenarios, {"nil", "main"})
    /\ host = <<>>
    /\ addr = <<>>
    /\ rangeStr = <<>>
    /\ nodes = <<>>
    /\ compressed = <<>>

(***************************************************************************)
(* RunOn, gossh.go:102-127.                                                *)
(***************************************************************************)
\* lines 103-113: coerce maxFlight, default the Logger, make sem.
RunOnEnter ==
    /\ ~crashed /\ rpc = "RunOn"
    /\ semCap' = Coerce(cfg.maxFlight)
    /\ cfgLogger' = IF cfgLogger = "nil" THEN "main" ELSE cfgLogger
    /\ rpc' = "loop"
    /\ UNCHANGED <<callVars, faults, hosts, cfg, next, sem, semClosed, workers, pc, dialVars,
                   sessVars, status, outVars, taskVars, crashed>>

\* line 116: sem <- struct{}{}
Acquire ==
    /\ ~crashed /\ rpc = "loop" /\ next <= N
    /\ CanSend(sem, semCap)
    /\ sem' = sem + 1
    /\ rpc' = "go"
    /\ UNCHANGED <<callVars, faults, hosts, cfg, cfgLogger, next, semCap, semClosed, workers, pc,
                   dialVars, sessVars, status, outVars, taskVars, crashed>>

\* lines 117-124: workers.Add(1) and the go statement.
Spawn ==
    /\ ~crashed /\ rpc = "go"
    /\ workers' = workers + 1
    /\ pc' = [pc EXCEPT ![next] = "Dial"]
    /\ next' = next + 1
    /\ rpc' = "loop"
    /\ UNCHANGED <<callVars, faults, hosts, cfg, cfgLogger, semCap, sem, semClosed, dialVars,
                   sessVars, status, outVars, taskVars, crashed>>

\* line 115: the range is exhausted.
LoopExit ==
    /\ ~crashed /\ rpc = "loop" /\ next > N
    /\ rpc' = "Wait"
    /\ UNCHANGED <<callVars, faults, hosts, cfg, cfgLogger, next, semCap, sem, semClosed, workers,
                   pc, dialVars, sessVars, status, outVars, taskVars, crashed>>

\* line 126: workers.Wait() returns when the counter is 0.
WaitGroupZero_noWait(n) == TRUE

WaitGroupZero(n) == n = 0

WorkersWait ==
    /\ ~crashed /\ rpc = "Wait"
    /\ WaitGroupZero(workers)
    /\ rpc' = "close"
    /\ UNCHANGED <<callVars, faults, hosts, cfg, cfgLogger, next, semCap, sem, semClosed, workers,
                   pc, dialVars, sessVars, status, outVars, taskVars, crashed>>

\* line 113, deferred: close(sem); RunOn returns.
CloseSem ==
    /\ ~crashed /\ rpc = "close"
    /\ semClosed' = TRUE
    /\ rpc' = "returned"
    /\ UNCHANGED <<callVars, faults, hosts, cfg, cfgLogger, next, semCap, sem, workers, pc,
                   dialVars, sessVars, status, outVars, taskVars, crashed>>

(***************************************************************************)
(* The worker goroutine of host hosts[i]: Run, gossh.go:129-136.           *)
(***************************************************************************)
\* Dial, lines 149-153: cfg is shared, and its Logger is overwritten.
DialLogger(i) ==
    /\ ~crashed /\ pc[i] = "Dial"
    /\ cfgLogger' = hosts[i]
    /\ pc' = [pc EXCEPT ![i] = "dial"]
    /\ UNCHANGED <<callVars, faults, hosts, cfg, runOnVars, dialVars, sessVars, status, outVars,
                   taskVars, crashed>>

\* Dial, lines 156-160: what Dial returns for the error e of dial.
DialReturn(e, handler) ==
    IF e.kind # "nil" /\ handler # "nil"
    THEN [client |-> FALSE, err |-> e]
    ELSE [client |-> e.kind = "nil", err |-> Nil]

\* The outcomes of a step that a fault may make fail, and the delays of an answer.
May(fault) == IF fault \in faults THEN {TRUE, FALSE} ELSE {TRUE}
Delays == IF "slow" \in faults THEN 0..MaxDelay ELSE {0}

\* Dial, lines 155-160, with dial, lines 170-208.  When the dial failed and a
\* status handler is set the handler is called next; in every other case Dial
\* returns a nil error and Run goes on to client.Run.
DialConn(i) ==
    /\ ~crashed /\ pc[i] = "dial"
    /\ \E netOK \in May("refused"), authOK \in May("auth"),
          cd \in Delays, hd \in Delays :
         LET e == dial(cfg.ConnectTimeout, netOK, cd, authOK, hd)
             r == DialReturn(e, cfg.StatusHandler)
         IN /\ dialErr' = [dialErr EXCEPT ![i] = e]
            /\ dialRet' = [dialRet EXCEPT ![i] = r]
            /\ conn' = [conn EXCEPT ![i] = IF e.kind = "nil" THEN "open" ELSE "none"]
            /\ status' = [status EXCEPT ![i] = IF r.err.kind # "nil" THEN r.err ELSE @]
            /\ calls' = [calls EXCEPT ![i] = IF r.err.kind # "nil" THEN @ + 1 ELSE @]
            /\ pc' = [pc EXCEPT ![i] = IF r.err.kind # "nil" THEN "PrintStatus" ELSE "Run"]
    /\ lgr' = [lgr EXCEPT ![i] = cfgLogger]
    /\ UNCHANGED <<callVars, faults, hosts, cfg, cfgLogger, runOnVars, closes, sessVars, statusLine,
                   stdoutMutex, succeeded, failed, taskVars, crashed>>

\* Where the status handler returns to: into Dial (Run then returns the dial
\* error, line 132) or into Client.Run (Run's deferred client.Close is next).
AfterStatus_noClose(i) == "Done"

AfterStatus(i) == IF dialRet[i].err.kind # "nil" THEN "Done" ELSE "Close"

\* stdoutMutex.Lock() of lines 30 and 48 returns when the mutex is free.
MutexFree_noLock(m) == TRUE

MutexFree(m) == m = Free

\* PrintStatus, line 48: stdoutMutex.Lock()
StatusLock(i) ==
    /\ ~crashed /\ pc[i] = "PrintStatus"
    /\ MutexFree(stdoutMutex)
    /\ stdoutMutex' = <<i, "status">>
    /\ pc' = [pc EXCEPT ![i] = "Printf"]
    /\ UNCHANGED <<callVars, faults, hosts, cfg, cfgLogger, runOnVars, dialVars, sessVars, status,
                   calls, statusLine, succeeded, failed, taskVars, crashed>>

\* PrintStatus, lines 50-59 and the deferred Unlock.
StatusWrite(i) ==
    /\ ~crashed /\ pc[i] = "Printf"
    /\ statusLine' = [statusLine EXCEPT ![i] = PrintStatus(hosts[i], status[i])]
    /\ stdoutMutex' = Free
    /\ pc' = [pc EXCEPT ![i] = "collate"]
    /\ UNCHANGED <<callVars, faults, hosts, cfg, cfgLogger, runOnVars, dialVars, sessVars, status,
                   calls, succeeded, failed, taskVars, crashed>>

\* printAndCollateStatus, main.go:94-100, under mu.
CollateStatus(i) ==
    /\ ~crashed /\ pc[i] = "collate"
    /\ succeeded' = Collate(succeeded, failed, hosts[i], status[i])[1]
    /\ failed' = Collate(succeeded, failed, hosts[i], status[i])[2]
    /\ pc' = [pc EXCEPT ![i] = AfterStatus(i)]
    /\ UNCHANGED <<callVars, faults, hosts, cfg, cfgLogger, runOnVars, dialVars, sessVars, status,
                   calls, statusLine, stdoutMutex, taskVars, crashed>>

\* Client.Run, lines 222-226, once cl.run has returned e: the status handler
\* is called when one is set, and then Run's deferred client.Close runs.
ClientRun(i, e) ==
    /\ status' = [status EXCEPT ![i] = e]
    /\ calls' = [calls EXCEPT ![i] = IF cfg.StatusHandler # "nil" THEN @ + 1 ELSE @]
    /\ pc' = [pc EXCEPT ![i] = IF cfg.StatusHandler # "nil" THEN "PrintStatus" ELSE "Close"]

\* Run, lines 134-135, Client.Run, line 222, and Client.run, lines 235-240:
\* cl.client.NewSession().  A nil client is dereferenced here: the goroutine
\* panics, and so does the deferred client.Close(); the panic unwinds Run and
\* the deferred function of the goroutine (lines 119-122) runs next.
\* NewSession waits for the server's answer to the channel open with no
\* deadline (line 196 has reset the read deadline): while the server stays
\* silent the goroutine is blocked in the call.
NewSession(i) ==
    /\ ~crashed /\ pc[i] = "Run"
    /\ IF ~dialRet[i].client
       THEN /\ pc' = [pc EXCEPT ![i] = "Done"]
            /\ UNCHANGED <<sess, status, calls>>
       ELSE \/ \E ok \in May("rejected") :
                 IF ok
                 THEN /\ sess' = [sess EXCEPT ![i] = "open"]
                      /\ pc' = [pc EXCEPT ![i] = "Pipes"]
                      /\ UNCHANGED <<status, calls>>
                 ELSE /\ ClientRun(i, OtherError("ssh: rejected"))
                      /\ UNCHANGED sess
            \/ /\ "stall" \in faults
               /\ pc' = [pc EXCEPT ![i] = "blocked"]
               /\ UNCHANGED <<sess, status, calls>>
    /\ UNCHANGED <<callVars, faults, hosts, cfg, cfgLogger, runOnVars, dialVars, cmd, timer,
                   waiter, waitErr, statusCh, expired, statusLine, stdoutMutex,
                   succeeded, failed, taskVars, crashed>>

\* Session.Close, line 239 (deferred) and line 293.
SessClose_leak(s) == s

SessClose(s) == IF s = "open" THEN "closed" ELSE s

\* Client.run, lines 244-268: the pipes, and the handler goroutines.  When a
\* handler is set and its pipe is not had, run returns the error before any
\* handler goroutine is started, and the deferred sess.Close runs.
Pipes(i) ==
    /\ ~crashed /\ pc[i] = "Pipes"
    /\ \E ok \in May("pipe") :
         IF ok \/ \A s \in Streams : Handler(s) = "nil"
         THEN /\ task' = [task EXCEPT ![i] =
                    [s \in Streams |-> IF Handler(s) # "nil" THEN "Scan" ELSE "none"]]
              /\ pc' = [pc EXCEPT ![i] = "Start"]
              /\ UNCHANGED <<sess, status, calls>>
         ELSE /\ sess' = [sess EXCEPT ![i] = SessClose(@)]
              /\ ClientRun(i, OtherError("ssh: pipe already set"))
              /\ UNCHANGED task
    /\ UNCHANGED <<callVars, faults, hosts, cfg, cfgLogger, runOnVars, dialVars, cmd, timer,
                   waiter, waitErr, statusCh, expired, statusLine, stdoutMutex,
                   succeeded, failed, crashed>>

\* Client.run, lines 271-284: sess.Start, the timer and the exit-wait
\* goroutine; when Start fails run returns and the deferred sess.Close runs.
\* Start waits for the server's answer to the exec request, before the timer
\* of line 279 exists: while the server stays silent the goroutine is blocked.
Start(i) ==
    /\ ~crashed /\ pc[i] = "Start"
    /\ \/ \E ok \in May("start") :
            IF ok
            THEN /\ cmd' = [cmd EXCEPT ![i] = "running"]
                 /\ timer' = [timer EXCEPT ![i] = "armed"]
                 /\ waiter' = [waiter EXCEPT ![i] = "Wait"]
                 /\ pc' = [pc EXCEPT ![i] = "select"]
                 /\ UNCHANGED <<sess, status, calls>>
            ELSE /\ sess' = [sess EXCEPT ![i] = SessClose(@)]
                 /\ ClientRun(i, OtherError("ssh: start failed"))
                 /\ UNCHANGED <<cmd, timer, waiter>>
       \/ /\ "stall" \in faults
          /\ pc' = [pc EXCEPT ![i] = "blocked"]
          /\ UNCHANGED <<sess, status, calls, cmd, timer, waiter>>
    /\ UNCHANGED <<callVars, faults, hosts, cfg, cfgLogger, runOnVars, dialVars, waitErr, statusCh,
                   expired, statusLine, stdoutMutex, succeeded, failed, taskVars, crashed>>

\* Client.run, line 283: sess.Wait() returns in the exit-wait goroutine.  The
\* command exits with some code; once the session or the connection is
\* closed Wait may also end without an exit status.
Wait(i) ==
    /\ ~crashed /\ waiter[i] = "Wait"
    /\ \/ \E code \in 0..MaxExit :
            waitErr' = [waitErr EXCEPT ![i] = WaitResult(code)]
       \/ /\ sess[i] = "closed" \/ conn[i] = "closed"
          /\ waitErr' = [waitErr EXCEPT ![i] =
                            OtherError("wait: remote command exited without exit status")]
    /\ cmd' = [cmd EXCEPT ![i] = "exited"]
    /\ waiter' = [waiter EXCEPT ![i] = "send"]
    /\ UNCHANGED <<callVars, faults, hosts, cfg, cfgLogger, runOnVars, pc, dialVars, sess, timer,
                   statusCh, expired, status, outVars, taskVars, crashed>>

\* Client.run, line 283: status <- the result; the goroutine ends.
SendStatus(i) ==
    /\ ~crashed /\ waiter[i] = "send"
    /\ CanSend(Len(statusCh[i]), StatusCap)
    /\ statusCh' = [statusCh EXCEPT ![i] = Append(@, waitErr[i])]
    /\ waitErr' = [waitErr EXCEPT ![i] = Unset]
    /\ waiter' = [waiter EXCEPT ![i] = "returned"]
    /\ UNCHANGED <<callVars, faults, hosts, cfg, cfgLogger, runOnVars, pc, dialVars, sess, cmd,
                   timer, expired, status, outVars, taskVars, crashed>>

\* The timer of line 279 fires: a value is ready on timeout.C.
TimerFire(i) ==
    /\ ~crashed /\ timer[i] = "armed"
    /\ TimerDuration(cfg.SessionTimeout) <= MaxDelay
    /\ timer' = [timer EXCEPT ![i] = "fired"]
    /\ expired' = [expired EXCEPT ![i] = cmd[i] = "running"]
    /\ UNCHANGED <<callVars, faults, hosts, cfg, cfgLogger, runOnVars, pc, dialVars, sess, cmd,
                   waiter, waitErr, statusCh, status, outVars, taskVars, crashed>>

\* select, lines 290-294: the timer case; the session is closed.  run returns,
\* and with it the timer is dropped.
SelectTimeout(i) ==
    /\ ~crashed /\ pc[i] = "select"
    /\ timer[i] = "fired"
    /\ timer' = [timer EXCEPT ![i] = "none"]
    /\ sess' = [sess EXCEPT ![i] = SessClose(@)]
    /\ ClientRun(i, SessionTimeoutError)
    /\ UNCHANGED <<callVars, faults, hosts, cfg, cfgLogger, runOnVars, dialVars, cmd, waiter,
                   waitErr, statusCh, expired, statusLine, stdoutMutex, succeeded,
                   failed, taskVars, crashed>>

\* select, lines 295-297: the status case, timeout.Stop(); then the deferred
\* sess.Close.  run returns, and with it the timer is dropped.  The select
\* may be reached when the timer has fired and the status has arrived: both
\* cases are ready and either one is taken.
SelectStatus(i) ==
    /\ ~crashed /\ pc[i] = "select"
    /\ statusCh[i] # <<>>
    /\ statusCh' = [statusCh EXCEPT ![i] = Tail(@)]
    /\ timer' = [timer EXCEPT ![i] = "none"]
    /\ sess' = [sess EXCEPT ![i] = SessClose(@)]
    /\ ClientRun(i, Head(statusCh[i]))
    /\ UNCHANGED <<callVars, faults, hosts, cfg, cfgLogger, runOnVars, dialVars, cmd, waiter,
                   waitErr, expired, statusLine, stdoutMutex, succeeded, failed,
                   taskVars, crashed>>

\* Run, line 134, deferred: client.Close(); Run returns.
ClientClose(i) ==
    /\ ~crashed /\ pc[i] = "Close"
    /\ conn' = [conn EXCEPT ![i] = "closed"]
    /\ closes' = [closes EXCEPT ![i] = @ + 1]
    /\ pc' = [pc EXCEPT ![i] = "Done"]
    /\ UNCHANGED <<callVars, faults, hosts, cfg, cfgLogger, runOnVars, lgr, dialErr, dialRet,
                   sessVars, status, outVars, taskVars, crashed>>

Panicking(i) == dialRet[i] = [client |-> FALSE, err |-> Nil]

\* RunOn, line 120, deferred: workers.Done()
Done(i) ==
    /\ ~crashed /\ pc[i] = "Done"
    /\ workers' = workers - 1
    /\ pc' = [pc EXCEPT ![i] = "release"]
    /\ UNCHANGED <<callVars, faults, hosts, cfg, cfgLogger, rpc, next, semCap, sem, semClosed,
                   dialVars, sessVars, status, outVars, taskVars, crashed>>

\* A receive on a buffered channel takes a value off the buffer when it holds
\* one; on a closed and empty channel it returns the zero value.
Recv_keep(n) == n

Recv(n) == IF n > 0 THEN n - 1 ELSE n

\* RunOn, line 121, deferred: <-sem.  A receive takes a buffered value, and on
\* a closed and empty channel it returns at once.  A panicking goroutine has
\* now run its deferred calls, and the runtime ends the process.
Release(i) ==
    /\ ~crashed /\ pc[i] = "release"
    /\ sem > 0 \/ semClosed
    /\ sem' = Recv(sem)
    /\ pc' = [pc EXCEPT ![i] = IF Panicking(i) THEN "fatal" ELSE "finished"]
    /\ UNCHANGED <<callVars, faults, hosts, cfg, cfgLogger, rpc, next, semCap, semClosed, workers,
                   dialVars, sessVars, status, outVars, taskVars, crashed>>

\* The unrecovered panic of a goroutine ends the process.
Crash(i) ==
    /\ ~crashed /\ pc[i] = "fatal"
    /\ crashed' = TRUE
    /\ UNCHANGED <<callVars, faults, hosts, cfg, cfgLogger, runOnVars, pc, dialVars, sessVars,
                   status, outVars, taskVars>>

(***************************************************************************)
(* The output handler goroutines: printLines, gossh.go:27-37.              *)
(***************************************************************************)
\* lines 29-30: scanner.Scan() returns a line of the command's output, then
\* stdoutMutex.Lock().  The command may write any number of lines, and what it
\* wrote stays readable in the pipe after the command has exited and after
\* the session is closed, until the handler has read it.
TaskLock(i, s) ==
    /\ ~crashed /\ task[i][s] = "Scan"
    /\ cmd[i] # "notStarted"
    /\ MutexFree(stdoutMutex)
    /\ stdoutMutex' = <<i, s>>
    /\ task' = [task EXCEPT ![i][s] = "Printf"]
    /\ UNCHANGED <<callVars, faults, hosts, cfg, cfgLogger, runOnVars, pc, dialVars, sessVars,
                   status, calls, statusLine, succeeded, failed, crashed>>

\* lines 31-32: the line is written, then stdoutMutex.Unlock().
TaskWrite(i, s) ==
    /\ ~crashed /\ task[i][s] = "Printf"
    /\ stdoutMutex' = Free
    /\ task' = [task EXCEPT ![i][s] = "Scan"]
    /\ UNCHANGED <<callVars, faults, hosts, cfg, cfgLogger, runOnVars, pc, dialVars, sessVars,
                   status, calls, statusLine, succeeded, failed, crashed>>

\* line 29: scanner.Scan() returns false: the pipe ended, which it does once
\* the command has exited or the session or the connection is closed.
TaskEOF(i, s) ==
    /\ ~crashed /\ task[i][s] = "Scan"
    /\ cmd[i] = "exited" \/ sess[i] = "closed" \/ conn[i] = "closed"
    /\ task' = [task EXCEPT ![i][s] = "returned"]
    /\ UNCHANGED <<callVars, faults, hosts, cfg, cfgLogger, runOnVars, pc, dialVars, sessVars,
                   status, outVars, crashed>>

Init == InitWith(Scenarios)

Next ==
    \/ RunOnEnter \/ Acquire \/ Spawn \/ LoopExit \/ WorkersWait \/ CloseSem
    \/ \E i \in Workers : DialLogger(i)
    \/ \E i \in Workers : DialConn(i)
    \/ \E i \in Workers : StatusLock(i)
    \/ \E i \in Workers : StatusWrite(i)
    \/ \E i \in Workers : CollateStatus(i)
    \/ \E i \in Workers : NewSession(i)
    \/ \E i \in Workers : Pipes(i)
    \/ \E i \in Workers : Start(i)
    \/ \E i \in Workers : Wait(i)
    \/ \E i \in Workers : SendStatus(i)
    \/ \E i \in Workers : TimerFire(i)
    \/ \E i \in Workers : SelectTimeout(i)
    \/ \E i \in Workers : SelectStatus(i)
    \/ \E i \in Workers : ClientClose(i)
    \/ \E i \in Workers : Done(i)
    \/ \E i \in Workers : Release(i)
    \/ \E i \in Workers : Crash(i)
    \/ \E i \in Workers, s \in Streams : TaskLock(i, s)
    \/ \E i \in Workers, s \in Streams : TaskWrite(i, s)
    \/ \E i \in Workers, s \in Streams : TaskEOF(i, s)

Spec == Init /\ [][Next]_vars

(***************************************************************************)
(* toAddr, gossh.go:163-168, as dial calls it (lines 173-174).  A string is *)
(* the sequence of its characters.                                         *)
(***************************************************************************)
\* The host strings of a host list: names and IPv4 addresses, IPv6 literals
\* (bare, or in brackets as net.Dial wants them before a port), and a name or
\* a bracketed literal followed by a port.
Names == UNION {[1..n -> {"h", "1", "."}] : n \in 1..MaxHostLen}
Literals == {a \o <<":", ":">> \o b : a \in {<<>>, <<"1">>}, b \in {<<>>, <<"1">>}}
Bracketed == {<<"[">> \o l \o <<"]">> : l \in Literals}
Ports == {<<"1">>, <<"1", "1">>}
HostStrings ==
    Names \cup Literals \cup Bracketed
        \cup {h \o <<":">> \o p : h \in Names \cup Bracketed, p \in Ports}

\* strings.Index(s, c) and strings.LastIndex(s, c) for a one-character c:
\* the 0-based index of the first (last) c in s, or -1.
Index(s, c) ==
    IF \E k \in 1..Len(s) : s[k] = c
    THEN (CHOOSE k \in 1..Len(s) : s[k] = c /\ \A j \in 1..(k - 1) : s[j] # c) - 1
    ELSE -1

LastIndex(s, c) ==
    IF \E k \in 1..Len(s) : s[k] = c
    THEN (CHOOSE k \in 1..Len(s) : s[k] = c /\ \A j \in (k + 1)..Len(s) : s[j] # c) - 1
    ELSE -1

Port22 == <<":", "2", "2">>

toAddr(h) == IF Index(h, ":") = -1 THEN h \o Port22 ELSE h

\* main.go's cfg (lines 181-190), and RunOn not called.
MainConfig ==
    [maxFlight |-> 1, ConnectTimeout |-> 1, SessionTimeout |-> 0,
     StdoutHandler |-> "printLines", StderrHandler |-> "printLines",
     StatusHandler |-> "printAndCollateStatus"]
NoRunOn == {[faults |-> {}, hosts |-> <<>>, cfg |-> MainConfig]}

InitAddr ==
    /\ RunOnInit(NoRunOn, {"main"})
    /\ host \in HostStrings
    /\ addr = <<>>
    /\ rangeStr = <<>>
    /\ nodes = <<>>
    /\ compressed = <<>>

\* dial, line 173: addr := toAddr(host)
DialAddr ==
    /\ addr = <<>>
    /\ addr' = toAddr(host)
    /\ UNCHANGED <<runVars, host, rangeStr, nodes, compressed>>

NextAddr == DialAddr

SpecAddr == InitAddr /\ [][NextAddr]_vars

(***************************************************************************)
(* expand and compress, cmd/gossh/gorange.go:12-40.  The two regexp        *)
(* replacements are modelled from the code; the range library              *)
(* (github.com/xaviershay/grange) is not part of the sources, and its      *)
(* Query and Compress are modelled from the spec and from the cases of     *)
(* TestExpand and TestCompress (gorange.go:53-104).                        *)
(***************************************************************************)
DigitChars == <<"0", "1", "2", "3", "4", "5", "6", "7", "8", "9">>
IsDigit(c) == \E d \in 1..10 : DigitChars[d] = c
DigitVal(c) == (CHOOSE d \in 1..10 : DigitChars[d] = c) - 1

\* strconv: the number a string of digits writes, and a number in decimal.
RECURSIVE Atoi(_)
Atoi(ds) ==
    IF ds = <<>> THEN 0
    ELSE 10 * Atoi(SubSeq(ds, 1, Len(ds) - 1)) + DigitVal(ds[Len(ds)])

RECURSIVE Itoa(_)
Itoa(n) ==
    IF n < 10 THEN <<DigitChars[n + 1]>>
    ELSE Itoa(n \div 10) \o <<DigitChars[(n % 10) + 1]>>

\* %0*d: n in decimal, filled with zeros to the width w.
Pad(n, w) ==
    [k \in 1..(IF Len(Itoa(n)) < w THEN w - Len(Itoa(n)) ELSE 0) |-> "0"] \o Itoa(n)

\* The last index of the run of digits that starts at s[k]: \d+ is greedy.
RunEnd(s, k) ==
    CHOOSE e \in k..Len(s) :
        /\ \A j \in k..e : IsDigit(s[j])
        /\ e = Len(s) \/ ~IsDigit(s[e + 1])

\* s[k..] begins with digits, then sep, then a digit: a match of (\d+)sep(\d+).
Matches(s, k, sep) ==
    /\ IsDigit(s[k])
    /\ RunEnd(s, k) + Len(sep) + 1 <= Len(s)
    /\ SubSeq(s, RunEnd(s, k) + 1, RunEnd(s, k) + Len(sep)) = sep
    /\ IsDigit(s[RunEnd(s, k) + Len(sep) + 1])

\* regexp.ReplaceAllString(s, "${1}to${2}") for the pattern (\d+)from(\d+):
\* the matches are taken leftmost first and do not overlap.
RECURSIVE ReplaceFrom(_, _, _, _)
ReplaceFrom(s, k, from, to) ==
    IF k > Len(s) THEN <<>>
    ELSE IF ~IsDigit(s[k]) THEN <<s[k]>> \o ReplaceFrom(s, k + 1, from, to)
    ELSE IF Matches(s, k, from)
    THEN LET e == RunEnd(s, k)
             f == RunEnd(s, e + Len(from) + 1)
         IN SubSeq(s, k, e) \o to \o SubSeq(s, e + Len(from) + 1, f)
                \o ReplaceFrom(s, f + 1, from, to)
    ELSE SubSeq(s, k, RunEnd(s, k)) \o ReplaceFrom(s, RunEnd(s, k) + 1, from, to)

\* expand, lines 15-16: (\d+)-(\d+) becomes ${1}..${2}.
DashToDots(s) == ReplaceFrom(s, 1, <<"-">>, <<".", ".">>)

\* compress, lines 38-39: (\d+)\.\.(\d+) becomes ${1}-${2}.
DotsToDash_kept(s) == s

DotsToDash(s) == ReplaceFrom(s, 1, <<".", ".">>, <<"-">>)

\* The place of the first run of digits of s, 0 when s has no digit.
FirstDigit(s) ==
    IF \E k \in 1..Len(s) : IsDigit(s[k])
    THEN CHOOSE k \in 1..Len(s) : IsDigit(s[k]) /\ \A j \in 1..(k - 1) : ~IsDigit(s[j])
    ELSE 0

\* grange's Query of one range lo..hi inside a name: the hosts from lo to hi
\* in ascending order, each number as wide as lo is written; an upper bound
\* with fewer digits than lo replaces the last digits of lo (1100..2 ends at
\* 1102).  A query without a range is the one host it names.
GrangeQuery(q) ==
    LET k == FirstDigit(q) IN
    IF k = 0 \/ ~Matches(q, k, <<".", ".">>) THEN <<q>>
    ELSE LET e == RunEnd(q, k)
             f == RunEnd(q, e + 3)
             lo == SubSeq(q, k, e)
             hi == SubSeq(q, e + 3, f)
             top == IF Len(hi) < Len(lo)
                    THEN SubSeq(lo, 1, Len(lo) - Len(hi)) \o hi ELSE hi
         IN [n \in 1..(Atoi(top) - Atoi(lo) + 1) |->
                SubSeq(q, 1, k - 1) \o Pad(Atoi(lo) + n - 1, Len(lo))
                    \o SubSeq(q, f + 1, Len(q))]

\* The number in a host name, and the name around it.
Number(h) == Atoi(SubSeq(h, FirstDigit(h), RunEnd(h, FirstDigit(h))))

\* grange's Compress of a set of hosts that differ in their number only and
\* whose numbers are consecutive: the lowest host as it is written, then ..
\* and the highest number without leading zeros (b0010..11); one host alone
\* is left as it is.
GrangeCompress(S) ==
    LET low == CHOOSE h \in S : \A g \in S : Number(h) <= Number(g)
        top == CHOOSE h \in S : \A g \in S : Number(h) >= Number(g)
        e == RunEnd(low, FirstDigit(low))
    IN IF Cardinality(S) = 1 THEN low
       ELSE SubSeq(low, 1, e) \o <<".", ".">> \o Itoa(Number(top))
                \o SubSeq(low, e + 1, Len(low))

\* expand, lines 12-27: the hosts of the query, in the order in which the
\* result set is iterated, which is any order.
Reverse(q) == [k \in 1..Len(q) |-> q[Len(q) + 1 - k]]
Rotate(q) == IF q = <<>> THEN q ELSE Tail(q) \o <<Head(q)>>
expand(r) ==
    {GrangeQuery(DashToDots(r)), Reverse(GrangeQuery(DashToDots(r))),
     Rotate(GrangeQuery(DashToDots(r)))}

\* compress, lines 29-40: the set of the nodes, compressed, with - for ..
compress(ns) == DotsToDash(GrangeCompress({ns[k] : k \in 1..Len(ns)}))

\* The range expressions: one name with a range lo-hi of at least two hosts,
\* the upper bound written with at most as many digits as the lower one.
Digits == UNION {[1..n -> {"0", "1"}] : n \in 1..MaxDigits}
Top(lo, hi) == IF Len(hi) < Len(lo) THEN SubSeq(lo, 1, Len(lo) - Len(hi)) \o hi ELSE hi
Bounds == {b \in Digits \X Digits :
              Len(b[2]) <= Len(b[1]) /\ Atoi(b[1]) < Atoi(Top(b[1], b[2]))}
Prefixes == {<<"b">>, <<"a", "-">>}
Suffixes == {<<>>, <<".", "d">>}
RangeExpr(pre, lo, hi, sfx) == pre \o lo \o <<"-">> \o hi \o sfx
RangeExprs ==
    {RangeExpr(pre, b[1], b[2], sfx) : pre \in Prefixes, b \in Bounds, sfx \in Suffixes}

InitRange ==
    /\ RunOnInit(NoRunOn, {"main"})
    /\ host = <<>>
    /\ addr = <<>>
    /\ rangeStr \in RangeExprs
    /\ nodes = <<>>
    /\ compressed = <<>>

\* main.go:113 (targets): hosts, err := expand(rangeExpr)
Expand ==
    /\ nodes = <<>>
    /\ nodes' \in expand(rangeStr)
    /\ UNCHANGED <<runVars, host, addr, rangeStr, compressed>>

\* main.go:194-195: compress of the hosts
Compress ==
    /\ nodes # <<>> /\ compressed = <<>>
    /\ compressed' = compress(nodes)
    /\ UNCHANGED <<runVars, host, addr, rangeStr, nodes>>

NextRange == Expand \/ Compress

SpecRange == InitRange /\ [][NextRange]_vars

\* C12, as the specification states it: compress of the expansion of a range
\* expression is that range expression.
C12_RoundTrip == compressed # <<>> => compressed = rangeStr

\* The range with its upper bound written as the whole number, without
\* leading zeros.
Canonical(pre, lo, hi, sfx) == RangeExpr(pre, lo, Itoa(Atoi(Top(lo, hi))), sfx)

\* C12: compress of the expansion of a range expression is the expression
\* with its upper bound written as the whole number without leading zeros,
\* whatever the order of the expanded hosts, so it is the expression itself
\* when the upper bound is written so; the result expands to the same hosts
\* and is its own round trip.
C12_RoundTripCanonical ==
    compressed # <<>> =>
        /\ \A pre \in Prefixes, b \in Bounds, sfx \in Suffixes :
               rangeStr = RangeExpr(pre, b[1], b[2], sfx)
                   => compressed = Canonical(pre, b[1], b[2], sfx)
        /\ \A ns \in expand(compressed) :
               /\ {ns[k] : k \in 1..Len(ns)} = {nodes[k] : k \in 1..Len(nodes)}
               /\ compress(ns) = compressed

\* A round trip that changed the spelling of the range: the hosts came in an
\* order that is not ascending, and the upper bound was abbreviated.
C12_Witness ==
    /\ compressed # <<>>
    /\ compressed # rangeStr
    /\ Len(nodes) >= 2
    /\ Number(nodes[1]) > Number(nodes[2])


(***************************************************************************)
(* Scheduling.  The Go scheduler runs every goroutine that can run: RunOn,   *)
(* the workers, the exit-wait goroutines and the handler goroutines; timers *)
(* fire; a goroutine waiting for stdoutMutex gets it in the end            *)
(* (sync.Mutex hands a starving waiter the lock), hence the strong         *)
(* fairness of the worker's steps.                                         *)
(***************************************************************************)
RunOnStep == RunOnEnter \/ Acquire \/ Spawn \/ LoopExit \/ WorkersWait \/ CloseSem

WorkerStep(i) ==
    \/ DialLogger(i) \/ DialConn(i) \/ StatusLock(i) \/ StatusWrite(i)
    \/ CollateStatus(i) \/ NewSession(i) \/ Pipes(i) \/ Start(i)
    \/ SelectTimeout(i) \/ SelectStatus(i) \/ ClientClose(i) \/ Done(i)
    \/ Release(i) \/ Crash(i)

TaskStep(i, s) == TaskLock(i, s) \/ TaskWrite(i, s) \/ TaskEOF(i, s)

Fairness ==
    /\ WF_vars(RunOnStep)
    /\ \A i \in 1..MaxHosts :
         /\ SF_vars(i \in Workers /\ WorkerStep(i))
         /\ WF_vars(i \in Workers /\ (Wait(i) \/ SendStatus(i)))
         /\ WF_vars(i \in Workers /\ TimerFire(i))
         /\ \A s \in Streams : WF_vars(i \in Workers /\ TaskStep(i, s))

FairSpec == Init /\ [][Next]_vars /\ Fairness

(***************************************************************************)
(* Properties.                                                             *)
(***************************************************************************)
Max(a, b) == IF a > b THEN a ELSE b
Count(q, x) == Cardinality({k \in 1..Len(q) : q[k] = x})

\* The worker is inside Run: Run was called and has neither returned nor
\* been unwound.
InRun(i) ==
    pc[i] \in {"Dial", "dial", "PrintStatus", "Printf", "collate", "Run",
               "Pipes", "Start", "select", "blocked", "Close"}
\* Run has ended and the deferred workers.Done() has run.
Joined(i) == pc[i] \in {"release", "finished", "fatal"}
InFlight == Cardinality({i \in Workers : InRun(i)})
DialFailed(i) == dialErr[i].kind = "error"

\* C1: at every moment of RunOn the number of pipelines (calls of Run) that
\* have started and not yet returned is at most max(1, maxFlight), whatever
\* the length of the host list.
C1_AtMostMaxFlight == InFlight <= Max(1, cfg.maxFlight)

\* The ceiling is reached while a further host waits for a permit.
C1_Witness ==
    /\ InFlight = Max(1, cfg.maxFlight)
    /\ rpc = "loop" /\ next <= N
    /\ \A i \in Workers : InRun(i) => pc[i] = "select"

\* C2: with printAndCollateStatus as the status handler, when RunOn has
\* returned the handler was invoked exactly once for every pipeline, and every
\* occurrence of a host is recorded once: in failed when its final error is
\* non-nil and in succeeded otherwise, N entries in all.
C2_EveryHostCollatedOnce ==
    (rpc = "returned" /\ cfg.StatusHandler = "printAndCollateStatus") =>
        /\ \A i \in Workers : calls[i] = 1 /\ status[i] # Unset
        /\ Len(succeeded) + Len(failed) = N
        /\ \A h \in HostNames :
             /\ Count(succeeded, h) =
                  Cardinality({i \in Workers : hosts[i] = h /\ status[i].kind = "nil"})
             /\ Count(failed, h) =
                  Cardinality({i \in Workers : hosts[i] = h /\ status[i].kind # "nil"})

\* The same host twice in the list, one dial failed and one session ran.
C2_Witness ==
    /\ rpc = "returned" /\ cfg.StatusHandler = "printAndCollateStatus"
    /\ N = 2 /\ hosts[1] = hosts[2]
    /\ DialFailed(1) /\ status[2] = Nil
    /\ succeeded = <<hosts[2]>> /\ failed = <<hosts[1]>>

\* C3: RunOn returns only after every host of the list has been dispatched
\* and the Run of every host has ended, whatever the outcomes were; a Run that
\* returned has a final error (nil included).
C3_ReturnsAfterAllPipelines ==
    rpc = "returned" =>
        /\ next = N + 1
        /\ \A i \in Workers :
             /\ Joined(i)
             /\ ~Panicking(i) => status[i] # Unset

\* The first host's dial failed, the second host still ran its command.
C3_Witness ==
    /\ rpc = "returned" /\ N >= 2
    /\ DialFailed(1) /\ status[1] = dialErr[1]
    /\ status[2].kind = "ExitError"

\* C4: a dial failure on one host does not keep any other host of the same
\* RunOn call from running to its terminal outcome, with or without a status
\* handler: once the run is over (RunOn has returned or the process has
\* ended) every other host has a final status.
C4_DialFailureIsolated ==
    \A x \in Workers, y \in Workers :
        (x # y /\ DialFailed(x) /\ (rpc = "returned" \/ crashed)) =>
            status[y] # Unset

\* C5: when the low-level dial fails, Dial returns that error and no client,
\* Run does not go on to Client.Run, and Run's result is the dial error, with
\* or without a status handler.
C5_DialErrorReturned ==
    \A i \in Workers :
        (DialFailed(i) /\ pc[i] # "dial") =>
            /\ dialRet[i] = [client |-> FALSE, err |-> dialErr[i]]
            /\ pc[i] # "Run"
            /\ Joined(i) => status[i] = dialErr[i]

\* C6: when the timer of a non-zero session timeout fires while the started
\* command has not exited, the result of Client.run is the session timeout
\* error, also when the exit status arrives before the select is decided.
C6_TimeoutWins ==
    \A i \in Workers :
        (expired[i] /\ pc[i] # "select") => status[i] = SessionTimeoutError

\* C7: at most one goroutine (a stdout or stderr handler of any host, or a
\* status reporter) is inside the write of a line to standard output.
Writers ==
    {w \in Workers \X (Streams \cup {"status"}) :
        IF w[2] = "status" THEN pc[w[1]] = "Printf" ELSE task[w[1]][w[2]] = "Printf"}

C7_OneWriter == Cardinality(Writers) <= 1

\* A handler of one host writes while the status reporter of another host
\* and the other stream of the same host wait for the mutex.
C7_Witness ==
    /\ N = 2
    /\ task[1]["stdout"] = "Printf"
    /\ pc[2] = "PrintStatus"
    /\ task[2]["stderr"] = "Scan"

\* C8: a ceiling below 1 gives RunOn the channel capacity that the ceiling 1
\* gives it, which is all the ceiling is used for, and the pipelines then run
\* one at a time.
C8_BelowOneIsOne ==
    (cfg.maxFlight <= 1 /\ rpc # "RunOn") => (semCap = 1 /\ InFlight <= 1)

\* The ceiling 0: one pipeline runs and the next host waits for its permit.
C8_Witness ==
    /\ cfg.maxFlight = 0 /\ N = 2
    /\ pc[1] = "select" /\ rpc = "loop" /\ next = 2 /\ sem = semCap

\* C9: with a ConnectTimeout of 0 no dial fails on a deadline, in the
\* connect and in the handshake.
C9_ZeroIsNoTimeout ==
    cfg.ConnectTimeout = 0 =>
        \A i \in Workers : dialErr[i] # OtherError("i/o timeout")

\* C10: a terminal status is written as one status line, of the form of the
\* status: nil gives "success, exit status: 0", an ExitError with code n
\* gives "failure, exit status: n", every other error gives "failure,
\* error: " and its message, the session timeout error included.
C10_StatusLineForm ==
    \A i \in Workers :
        statusLine[i] # NoLine =>
            LET l == statusLine[i]
                e == status[i]
            IN /\ calls[i] = 1
               /\ Len(l) = 4 /\ l[1] = hosts[i] /\ l[2] = "status"
               /\ e.kind = "nil" => (l[3] = "success, exit status: " /\ l[4] = "0")
               /\ e.kind = "ExitError" =>
                    (l[3] = "failure, exit status: " /\ l[4] = ToString(e.code))
               /\ e.kind \notin {"nil", "ExitError"} =>
                    (l[3] = "failure, error: " /\ l[4] = e.msg)
               /\ e = SessionTimeoutError => l[4] = "session timeout"

\* The status line of a session that timed out has been written.
C10_Witness ==
    \E i \in Workers :
        /\ status[i] = SessionTimeoutError
        /\ statusLine[i] = <<hosts[i], "status", "failure, error: ", "session timeout">>

\* The host string carries an explicit port: it is host:port, where the host
\* has no colon of its own, or [host]:port (the forms net.Dial takes).
HasPort(h) ==
    /\ LastIndex(h, ":") # -1
    /\ IF h[1] = "["
       THEN LastIndex(h, ":") >= 1 /\ h[LastIndex(h, ":")] = "]"
       ELSE Index(h, ":") = LastIndex(h, ":")

\* C11: for every host string the address dialed is host + ":22" when the
\* host carries no explicit port, and the host string unchanged when it
\* carries one.
C11_PortDefault ==
    addr # <<>> => addr = (IF HasPort(host) THEN host ELSE host \o Port22)

\* C13: the Config shared by the pipelines is never mutated by RunOn, Run or
\* Dial: in every interleaving of the pipelines the logger that dial reads for
\* the pipeline of host H, and stores in the Client, carries the label H, and
\* when RunOn has returned cfg.Logger is what the caller put there (nil or the
\* Logger labelled "main").
C13_ConfigNotMutated ==
    /\ \A i \in Workers : lgr[i] # "nil" => lgr[i] = hosts[i]
    /\ rpc = "returned" => cfgLogger \in {"nil", "main"}

\* C14: in every pipeline whose dial succeeds the connection is closed
\* exactly once; the close comes after the status handler (when one is set)
\* was invoked with the final error and before the worker signals completion
\* and releases its permit; no connection is open when RunOn has returned.
C14_ClosedOnceInOrder ==
    /\ \A i \in Workers :
         /\ closes[i] = (IF conn[i] = "closed" THEN 1 ELSE 0)
         /\ conn[i] # "none" <=> dialErr[i] = Nil
         /\ conn[i] = "open" => InRun(i)
         /\ (dialErr[i] = Nil /\ ~InRun(i)) => conn[i] = "closed"
         /\ conn[i] = "closed" =>
              /\ status[i] # Unset
              /\ cfg.StatusHandler # "nil" =>
                   /\ calls[i] = 1
                   /\ statusLine[i] = PrintStatus(hosts[i], status[i])
                   /\ Count(succeeded \o failed, hosts[i]) >= 1
    /\ rpc = "returned" => \A i \in Workers : conn[i] # "open"

\* The connection of a session that timed out is closed, its status has been
\* reported, and the worker still holds its permit.
C14_Witness ==
    \E i \in Workers :
        /\ conn[i] = "closed" /\ closes[i] = 1 /\ pc[i] = "Done"
        /\ status[i] = SessionTimeoutError /\ calls[i] = 1
        /\ sem >= 1

\* Client.run has returned for the worker: the dial gave a client, and the
\* worker is past the select or past a failed NewSession, pipe or Start.
RunReturned(i) ==
    /\ dialRet[i].client
    /\ pc[i] \in {"PrintStatus", "Printf", "collate", "Close", "Done", "release",
                  "finished"}

\* C15: every call of Client.run goes Created -> Opened -> Started -> one
\* terminal outcome -> Closed: the command is started only on an open session
\* and after the pipes of the handlers that are set were obtained; run returns
\* with one outcome, which never changes afterwards, and with no session left
\* open, on every path (no session, pipe failure, start failure, exit,
\* timeout); a closed session stays closed.
C15_SessionLifecycle ==
    [][\A i \in Workers :
         /\ (cmd[i] = "notStarted" /\ cmd'[i] # "notStarted") =>
              /\ sess[i] = "open" /\ status[i] = Unset
              /\ \A s \in Streams : Handler(s) # "nil" => task[i][s] = "Scan"
         /\ (sess[i] = "none" /\ sess'[i] # "none") =>
              (sess'[i] = "open" /\ cmd[i] = "notStarted" /\ status[i] = Unset)
         /\ sess[i] = "closed" => sess'[i] = "closed"
         /\ pc'[i] \in {"Run", "Pipes", "Start", "select"} => status'[i] = Unset
         /\ RunReturned(i)' => (status'[i] # Unset /\ sess'[i] # "open")
         /\ RunReturned(i) => status'[i] = status[i]]_vars

\* run has returned the error of a pipe that was not had, the session closed.
C15_Witness ==
    \E i \in Workers :
        /\ RunReturned(i) /\ sess[i] = "closed" /\ cmd[i] = "notStarted"
        /\ status[i] = OtherError("ssh: pipe already set")

\* The handler goroutines of the worker that have not returned.
Running(i) == {s \in Streams : task[i][s] \in {"Scan", "Printf"}}

\* C16: no stdout or stderr handler goroutine started by Client.run is still
\* running once the connection that owns its session has been closed, and
\* none is running once RunOn has returned.
C16_NoTaskAfterClose ==
    /\ \A i \in Workers : conn[i] = "closed" => Running(i) = {}
    /\ rpc = "returned" => \A i \in Workers : Running(i) = {}

\* C17: the status line of a host is written only after every stdout and
\* stderr line of the host's command has been written: once the status line
\* of the host is out, no handler goroutine of the host writes a line.
C17_StatusAfterOutput ==
    \A i \in Workers :
        statusLine[i] # NoLine => \A s \in Streams : task[i][s] # "Printf"

\* C18: with a non-zero connect timeout and a non-zero session timeout RunOn
\* returns in the end, for every host list and whatever the hosts do.
C18_RunOnReturns ==
    (cfg.ConnectTimeout > 0 /\ cfg.SessionTimeout > 0) => <>(rpc = "returned")

\* The pipelines that hold a permit: the host whose permit RunOn has just
\* sent (the go statement is next) and every worker that was started and has
\* not yet received from sem.
Dispatched ==
    {i \in Workers : (rpc = "go" /\ i = next) \/ pc[i] \notin {"idle", "finished", "fatal"}}

\* C19: under every interleaving the number of permits held in sem equals the
\* number of dispatched pipelines that have not yet released; a worker calls
\* workers.Done() before its receive from sem, so RunOn may close sem while
\* workers are still releasing, and then each of them still finds its permit
\* to receive; nothing is sent on sem once it is closed.
C19_PermitsSafe ==
    /\ sem = Cardinality(Dispatched)
    /\ rpc # "RunOn" => sem <= semCap
    /\ workers = Cardinality({i \in Workers : InRun(i) \/ pc[i] = "Done"})
    /\ \A i \in Workers : pc[i] = "release" => sem > 0
    /\ semClosed => (rpc = "returned" /\ next = N + 1)

\* RunOn has closed sem and returned while two workers have yet to receive.
C19_Witness ==
    /\ semClosed /\ sem = 2
    /\ \A i \in Workers : pc[i] = "release"

\* C20: the exit-wait goroutine never blocks on its send: the channel status
\* holds one value and gets one send per run, so there is room when
\* sess.Wait() returns, also after the timeout case was taken and nobody
\* receives; the value that arrives late stays in the channel and the outcome
\* that run returned stays the session timeout.
C20_WaiterNeverBlocks ==
    \A i \in Workers :
        /\ Len(statusCh[i]) <= StatusCap
        /\ waiter[i] \in {"Wait", "send"} => statusCh[i] = <<>>
        /\ waiter[i] = "send" =>
             (waitErr[i] # Unset /\ CanSend(Len(statusCh[i]), StatusCap))
        /\ (statusCh[i] # <<>> /\ pc[i] # "select") => status[i] = SessionTimeoutError
        /\ (waiter[i] = "returned" /\ pc[i] # "select") =>
             (statusCh[i] = <<>> <=> status[i] # SessionTimeoutError)

\* The pipeline has ended with the session timeout, and the exit status that
\* came later is in the channel, the goroutine gone.
C20_Witness ==
    \E i \in Workers :
        /\ pc[i] = "finished" /\ status[i] = SessionTimeoutError
        /\ waiter[i] = "returned" /\ statusCh[i] = <<ExitError(1)>>

=============================================================================
